---------------------------- MODULE Spec2Model ----------------------------
(* A model of VIPUR's output-parsing layer and quantile engine:            *)
(*   rosetta_feature_generation.py  - scorefile parser, quantile engine    *)
(*                                    quantile comparison of two tables    *)
(*   psiblast_feature_generation.py - sequence extractor, PSSM parser,     *)
(*                                    completion check                     *)
(* Python floats are modelled as exact rationals [n, d] (d > 0); text is   *)
(* modelled as sequences of one-character strings.                         *)
EXTENDS Integers, Sequences, FiniteSets, TLC

VARIABLES
    \* ---- quantile engine (rosetta_feature_generation.py) ----
    query_distribution,      \* the list passed as the (query) distribution
    reference_distribution,  \* the list passed as the reference distribution
    quartile,                \* the requested quantile q, a rational
    quartile_value,          \* result of determine_quartile_value
    quartile_back,           \* result of determine_quartile on the same list
    quartile2,               \* result of the cross-distribution helper
    q_pc,                    \* position of the caller
    \* ---- sequence extractor (psiblast_feature_generation.py) ----
    pdb_lines,               \* the records of the coordinate file, in document order
    target_chain,            \* the chain asked for
    sequence,                \* the sequence built so far
    residues,                \* the position labels collected so far (a list)
    last_resi,               \* the label of the last residue added
    pdb_i,                   \* index of the next ATOM line to scan
    residue_map,             \* the returned numbering map (a dict)
    pdb_pc,                  \* position inside extract_protein_sequence_from_pdb
    \* ---- score-table parser (rosetta_feature_generation.py) ----
    sf_lines,                \* the lines of the scorefile
    sf_header,               \* the header argument: index of the header line
    as_float,                \* the term names to convert to float
    score_terms,             \* the term names of the header, in column order
    scores,                  \* the dict term -> list of values
    sf_i,                    \* index of the next line to read
    sf_pc,                   \* position inside extract_scores_from_scorefile
    \* ---- PSSM parser (psiblast_feature_generation.py) ----
    pssm_lines,              \* the raw lines of the PSSM file
    split_lines,             \* the tokenized lines
    most_columns,            \* the largest field count
    x2aa,                    \* column index -> amino-acid label of the header
    num_aa,                  \* half the number of header columns
    pssm_dict,               \* the dict position -> Position Entry
    pssm_i,                  \* index of the next tokenized line to parse
    pssm_pc,                 \* position inside extract_pssm_from_psiblast_pssm
    \* ---- quantile comparison (rosetta_feature_generation.py) ----
    variant_distribution,    \* the variant table: term -> list of values
    native_distribution,     \* the native table: term -> list of values
    cmp_terms,               \* the argument terms: the configured terms (a list)
    quartiles,               \* the named quantiles: label -> quantile (a dict)
    quartile_keys,           \* quartiles.keys(): the labels in iteration order
    quartile_comparisons,    \* the dict feature name -> comparison value
    cmp_term,                \* index of the term of the next iteration
    cmp_quartile,            \* index of the label of the next iteration
    cmp_pc,                  \* position inside extract_quartile_score_terms_from_scorefiles
    \* ---- completion check (psiblast_feature_generation.py) ----
    psiblast_pssm,           \* the file at the path psiblast_pssm
    psiblast_output,         \* the argument psiblast_output and the file at it
    failed_output_str,       \* the failure phrase
    not_empty,               \* "None", "True" or "False"
    success,                 \* the success flag
    chk_pc                   \* position inside check_psiblast_output

qvars == <<query_distribution, reference_distribution, quartile,
           quartile_value, quartile_back, quartile2, q_pc>>

pdbvars == <<pdb_lines, target_chain, sequence, residues, last_resi, pdb_i,
             residue_map, pdb_pc>>

sfvars == <<sf_lines, sf_header, as_float, score_terms, scores, sf_i, sf_pc>>

pssmvars == <<pssm_lines, split_lines, most_columns, x2aa, num_aa, pssm_dict,
              pssm_i, pssm_pc>>

cmpvars == <<variant_distribution, native_distribution, cmp_terms, quartiles,
             quartile_keys, quartile_comparisons, cmp_term, cmp_quartile, cmp_pc>>

chkvars == <<psiblast_pssm, psiblast_output, failed_output_str, not_empty,
             success, chk_pc>>

vars == <<qvars, pdbvars, sfvars, pssmvars, cmpvars, chkvars>>

\* what each component leaves alone
not_qvars == <<pdbvars, sfvars, pssmvars, cmpvars, chkvars>>

not_pdbvars == <<qvars, sfvars, pssmvars, cmpvars, chkvars>>

not_sfvars == <<qvars, pdbvars, pssmvars, cmpvars, chkvars>>

not_pssmvars == <<qvars, pdbvars, sfvars, cmpvars, chkvars>>

not_cmpvars == <<qvars, pdbvars, sfvars, pssmvars, chkvars>>

not_chkvars == <<qvars, pdbvars, sfvars, pssmvars, cmpvars>>

-----------------------------------------------------------------------------
(* Bounds of the model *)

\* longest query distribution
MaxLen == 3
\* longest reference distribution
MaxRefLen == 2
\* distribution values are drawn from 1..MaxVal
MaxVal == 3
\* quantiles are drawn from the grid -1/QDen .. (QDen+1)/QDen
QDen == 4

\* most records in a coordinate file
MaxRecords == 3

\* most term names in a scorefile header
MaxTerms == 3
\* most fields in a scorefile row
MaxFields == 3
\* most lines after the scorefile header
MaxRows == 2

\* most lines in a PSSM file
MaxPssmLines == 3

\* most configured terms of a quantile comparison
MaxCmpTerms == 2

(* Program constants *)

\* aa_line_shift = -4: the header has four fields fewer than a data line
aa_line_shift == -4

\* tolerance = 1e-7 = 1/ToleranceDen, the default of both quantile functions
ToleranceDen == 10000000

-----------------------------------------------------------------------------
(* Rationals *)

Rat(n, d) == [n |-> n, d |-> d]

Abs(x) == IF x < 0 THEN -x ELSE x

\* a <= b for rationals with positive denominators
RLe(a, b) == a.n * b.d <= b.n * a.d

REq(a, b) == a.n * b.d = b.n * a.d

\* |a - b| <= 1/ToleranceDen, without multiplying by ToleranceDen
RWithinTolerance(a, b) ==
    Abs(a.n * b.d - b.n * a.d) <= (a.d * b.d) \div ToleranceDen

\* a result that is either a rational or a Python exception
Ok(r) == [error |-> "none", n |-> r.n, d |-> r.d]

Raise(e) == [error |-> e, n |-> 0, d |-> 1]

NoResult == Raise("unset")

-----------------------------------------------------------------------------
(* list.sort() on a list of numbers *)

RECURSIVE Insert(_, _)
Insert(x, s) ==
    IF s = <<>> THEN <<x>>
    ELSE IF x <= Head(s) THEN <<x>> \o s
    ELSE <<Head(s)>> \o Insert(x, Tail(s))

RECURSIVE Sorted(_)
Sorted(s) == IF s = <<>> THEN <<>> ELSE Insert(Head(s), Sorted(Tail(s)))

SeqRange(s) == {s[i] : i \in 1..Len(s)}

MapSeq(s, F(_)) == [k \in 1..Len(s) |-> F(s[k])]

SetMin(S) == CHOOSE x \in S : \A y \in S : x <= y

SetMax(S) == CHOOSE x \in S : \A y \in S : y <= x

-----------------------------------------------------------------------------
(* Quantile engine *)

\* determine_quartile_value without its initial distribution.sort()
determine_quartile_value_unsorted(q, distribution) ==
    LET d == distribution
        total == Len(d) - 1
    IN  IF q.n <= 0 THEN Rat(d[1], 1)
        ELSE IF q.n > q.d THEN Rat(d[Len(d)], 1)
        ELSE LET num == q.n * total
                 base_index == num \div q.d
                 rem == num % q.d
             IN  IF rem <= (q.d - 1) \div ToleranceDen
                 THEN Rat(d[base_index + 1], 1)
                 ELSE Rat(d[base_index + 1] * q.d
                            + rem * (d[base_index + 2] - d[base_index + 1]), q.d)

\* determine_quartile_value( quartile , distribution ): the value at quantile q.
\* base_index = q*total = num/q.d, remaining = rem/q.d
determine_quartile_value(q, distribution) ==
    LET d == Sorted(distribution)
        total == Len(d) - 1
    IN  IF q.n <= 0 THEN Rat(d[1], 1)
        ELSE IF q.n > q.d THEN Rat(d[Len(d)], 1)
        ELSE LET num == q.n * total
                 base_index == num \div q.d
                 rem == num % q.d
             IN  IF rem <= (q.d - 1) \div ToleranceDen      \* remaining < tolerance
                 THEN Rat(d[base_index + 1], 1)
                 ELSE Rat(d[base_index + 1] * q.d
                            + rem * (d[base_index + 2] - d[base_index + 1]), q.d)

\* determine_quartile interpolating upward from the upper neighbour's rank
\* (base_index where the code has base_index - 1)
determine_quartile_off_by_one(v, distribution) ==
    LET d == Sorted(distribution)
        total == Len(d) - 1
        rank ==
            IF RLe(v, Rat(d[1], 1)) THEN Rat(0, 1)
            ELSE IF RLe(Rat(d[Len(d)], 1), v) THEN Rat(total, 1)
            ELSE LET base_index == SetMin({i \in 1..Len(d) : d[i] * v.d >= v.n})
                     gap == d[base_index] - d[base_index - 1]
                 IN  IF Abs(d[base_index] * v.d - v.n) <= v.d \div ToleranceDen
                     THEN Rat(base_index - 1, 1)
                     ELSE Rat((base_index - 1) * v.d * gap
                                + (v.n - d[base_index - 1] * v.d), v.d * gap)
    IN  IF total = 0 THEN Raise("ZeroDivisionError")
        ELSE Ok(Rat(rank.n, rank.d * total))

\* determine_quartile( quartile_value , distribution ): the quantile of a value.
\* Indices are 1-based here: rank = index - 1.
determine_quartile(v, distribution) ==
    LET d == Sorted(distribution)
        total == Len(d) - 1
        rank ==
            IF RLe(v, Rat(d[1], 1)) THEN Rat(0, 1)
            ELSE IF RLe(Rat(d[Len(d)], 1), v) THEN Rat(total, 1)
            ELSE LET base_index == SetMin({i \in 1..Len(d) : d[i] * v.d >= v.n})
                     gap == d[base_index] - d[base_index - 1]
                 IN  IF Abs(d[base_index] * v.d - v.n) <= v.d \div ToleranceDen
                     THEN Rat(base_index - 1, 1)
                     ELSE Rat((base_index - 2) * v.d * gap
                                + (v.n - d[base_index - 1] * v.d), v.d * gap)
    IN  IF total = 0 THEN Raise("ZeroDivisionError")     \* float( quartile )/total
        ELSE Ok(Rat(rank.n, rank.d * total))

\* determine_quartile_from_quartile_value_of_another_distribution
determine_quartile_from_quartile_value_of_another_distribution(q, query, reference) ==
    determine_quartile(determine_quartile_value(q, query), reference)

-----------------------------------------------------------------------------
(* Inputs of the quantile engine *)

Distributions(maxlen) == UNION {[1..k -> 1..MaxVal] : k \in 1..maxlen}

\* a quantile so close to 0 that q*total leaves a remainder below the tolerance
TinyQuartile == Rat(1, ToleranceDen * 10)

Quartiles == {Rat(k, QDen) : k \in (-1)..(QDen + 1)} \cup {TinyQuartile}

QInit ==
    /\ query_distribution \in Distributions(MaxLen)
    /\ reference_distribution \in Distributions(MaxRefLen)
    /\ quartile \in Quartiles
    /\ quartile_value = NoResult
    /\ quartile_back = NoResult
    /\ quartile2 = NoResult
    /\ q_pc = "start"

\* a caller runs determine_quartile_value( quartile , query_distribution )
DetermineQuartileValue ==
    /\ q_pc = "start"
    /\ query_distribution' = Sorted(query_distribution)
    /\ quartile_value' = Ok(determine_quartile_value(quartile, query_distribution))
    /\ q_pc' = "valued"
    /\ UNCHANGED <<reference_distribution, quartile, quartile_back, quartile2, not_qvars>>

\* ... and places the value back on the same distribution
DetermineQuartile ==
    /\ q_pc = "valued"
    /\ query_distribution' = Sorted(query_distribution)
    /\ quartile_back' = determine_quartile(quartile_value, query_distribution)
    /\ q_pc' = "inverted"
    /\ UNCHANGED <<reference_distribution, quartile, quartile_value, quartile2, not_qvars>>

\* a caller runs the cross-distribution helper on (query, reference)
DetermineQuartileFromAnother ==
    /\ q_pc = "start"
    /\ query_distribution' = Sorted(query_distribution)
    /\ reference_distribution' = Sorted(reference_distribution)
    /\ quartile_value' = Ok(determine_quartile_value(quartile, query_distribution))
    /\ quartile2' = determine_quartile_from_quartile_value_of_another_distribution(
                        quartile, query_distribution, reference_distribution)
    /\ q_pc' = "compared"
    /\ UNCHANGED <<quartile, quartile_back, not_qvars>>

\* the quantile engine is not in use
QIdle ==
    /\ query_distribution = <<1>>
    /\ reference_distribution = <<1>>
    /\ quartile = Rat(0, 1)
    /\ quartile_value = NoResult
    /\ quartile_back = NoResult
    /\ quartile2 = NoResult
    /\ q_pc = "idle"

QNext == DetermineQuartileValue \/ DetermineQuartile \/ DetermineQuartileFromAnother


-----------------------------------------------------------------------------
(* Text: a string is a sequence of one-character strings *)

Whitespace == {" ", "\n", "\t"}

\* str.strip(): drop leading and trailing whitespace
RECURSIVE LStrip(_)
LStrip(s) == IF s # <<>> /\ Head(s) \in Whitespace THEN LStrip(Tail(s)) ELSE s

RECURSIVE RStrip(_)
RStrip(s) ==
    IF s # <<>> /\ s[Len(s)] \in Whitespace
    THEN RStrip(SubSeq(s, 1, Len(s) - 1)) ELSE s

Strip(s) == LStrip(RStrip(s))

\* s[:len( p )] == p
StartsWith(s, p) == Len(s) >= Len(p) /\ SubSeq(s, 1, Len(p)) = p

\* s.replace( old , '' ): drop every occurrence of old, left to right
RECURSIVE RemoveAll(_, _)
RemoveAll(s, old) ==
    IF s = <<>> THEN <<>>
    ELSE IF StartsWith(s, old) THEN RemoveAll(SubSeq(s, Len(old) + 1, Len(s)), old)
    ELSE <<Head(s)>> \o RemoveAll(Tail(s), old)

\* s.split( ' ' ): the pieces between single blanks, empty pieces included
RECURSIVE SplitOnBlank(_, _)
SplitOnBlank(s, piece) ==
    IF s = <<>> THEN <<piece>>
    ELSE IF Head(s) = " " THEN <<piece>> \o SplitOnBlank(Tail(s), <<>>)
    ELSE SplitOnBlank(Tail(s), Append(piece, Head(s)))

\* ' '.join( words )
RECURSIVE JoinWithBlank(_)
JoinWithBlank(words) ==
    IF words = <<>> THEN <<>>
    ELSE IF Len(words) = 1 THEN words[1]
    ELSE words[1] \o <<" ">> \o JoinWithBlank(Tail(words))

Digits == {"0", "1", "2", "3", "4", "5", "6", "7", "8", "9"}

DigitValue(c) == CHOOSE v \in 0..9 : <<"0", "1", "2", "3", "4", "5", "6", "7", "8", "9">>[v + 1] = c

\* the number written by a run of digits
RECURSIVE DigitsValue(_, _)
DigitsValue(s, acc) ==
    IF s = <<>> THEN acc ELSE DigitsValue(Tail(s), acc * 10 + DigitValue(Head(s)))

RECURSIVE Pow10(_)
Pow10(k) == IF k = 0 THEN 1 ELSE 10 * Pow10(k - 1)

\* float( s ) for plain decimal text: blanks, a sign, digits, a point, digits.
\* Anything else raises ValueError (exponents, inf and nan are not modelled).
ParseFloat(s) ==
    LET t == Strip(s)
        signed == t # <<>> /\ Head(t) \in {"-", "+"}
        body == IF signed THEN Tail(t) ELSE t
        dots == {k \in 1..Len(body) : body[k] = "."}
        point == IF dots = {} THEN Len(body) + 1 ELSE SetMin(dots)
        whole == SubSeq(body, 1, point - 1)
        frac == SubSeq(body, point + 1, Len(body))
        wellformed == /\ Cardinality(dots) <= 1
                      /\ SeqRange(whole) \cup SeqRange(frac) \subseteq Digits
                      /\ Len(whole) + Len(frac) > 0
        magnitude == DigitsValue(whole \o frac, 0)
    IN  IF ~wellformed THEN Raise("ValueError")
        ELSE Ok(Rat(IF signed /\ Head(t) = "-" THEN -magnitude ELSE magnitude,
                    Pow10(Len(frac))))

\* int( s ): blanks, a sign, digits
ParseInt(s) ==
    LET t == Strip(s)
        signed == t # <<>> /\ Head(t) \in {"-", "+"}
        body == IF signed THEN Tail(t) ELSE t
        magnitude == DigitsValue(body, 0)
    IN  IF body = <<>> \/ ~(SeqRange(body) \subseteq Digits) THEN Raise("ValueError")
        ELSE Ok(Rat(IF signed /\ Head(t) = "-" THEN -magnitude ELSE magnitude, 1))

-----------------------------------------------------------------------------
(* Sequence extractor: extract_protein_sequence_from_pdb *)

\* vipur_settings.AMINO_ACID_CODES: three-letter code -> one-letter code
AMINO_ACID_CODES == [resn \in {"ALA", "GLY"} |-> IF resn = "ALA" THEN "A" ELSE "G"]

\* Python's None: equal to no string
None == <<"None">>

\* The state of the scanning loop
LoopState(seq, res, last, err) ==
    [sequence |-> seq, residues |-> res, last_resi |-> last, error |-> err]

\* the loop body with last_resi refreshed before the chain filter
ScanLineAnyChain(st, i, chain) ==
    LET resi == Strip(i.resi)
    IN  IF i.chain # chain
        THEN LoopState(st.sequence, st.residues, resi, "none")
        ELSE IF resi = st.last_resi THEN st
        ELSE IF i.resn \notin DOMAIN AMINO_ACID_CODES
        THEN LoopState(st.sequence, st.residues, st.last_resi, "KeyError")
        ELSE LoopState(Append(st.sequence, AMINO_ACID_CODES[i.resn]),
                       Append(st.residues, resi), resi, "none")

\* One pass of the loop body over ATOM line i (chain = i[21:22],
\* resi = i[22:27].strip(), resn = i[17:20])
ScanLine(st, i, chain) ==
    IF i.chain # chain THEN st
    ELSE LET resi == Strip(i.resi)
         IN  IF resi = st.last_resi THEN st
             ELSE IF i.resn \notin DOMAIN AMINO_ACID_CODES
             THEN LoopState(st.sequence, st.residues, st.last_resi, "KeyError")
             ELSE LoopState(Append(st.sequence, AMINO_ACID_CODES[i.resn]),
                            Append(st.residues, resi), resi, "none")

\* lines = [i for i in f.xreadlines() if i[:4] == 'ATOM']
AtomLines(lines) == SelectSeq(lines, LAMBDA i : i.record = "ATOM")

\* dict( [(residues[i] , i) for i in xrange( len( residues ) )] ):
\* a later pair replaces an earlier one with the same key
DictOfResidues(res) ==
    [l \in SeqRange(res) |-> SetMax({k \in 1..Len(res) : res[k] = l}) - 1]

\* the five columns 23-27 of a record: residue number and insertion code
RawLabels ==
    { <<" ", " ", "1", "0", " ">>, <<"1", "0", " ", " ", " ">>,
      <<" ", " ", "1", "1", " ">> }

PdbRecord(rec, resn, chain, resi) ==
    [record |-> rec, resn |-> resn, chain |-> chain, resi |-> resi]

Chains == {"A", "B"}

PdbRecords ==
    {PdbRecord("ATOM", resn, c, l) : resn \in {"ALA", "GLY"}, c \in Chains,
                                     l \in RawLabels}
    \cup {PdbRecord("HETA", "HOH", "A", <<" ", " ", "1", "1", " ">>),
          PdbRecord("ATOM", "UNK", "A", <<" ", " ", "1", "1", " ">>)}

PdbInit ==
    /\ pdb_lines \in UNION {[1..k -> PdbRecords] : k \in 0..MaxRecords}
    /\ target_chain \in Chains
    /\ sequence = <<>>
    /\ residues = <<>>
    /\ last_resi = None
    /\ pdb_i = 1
    /\ residue_map = <<>>
    /\ pdb_pc = "scan"

\* the sequence extractor is not in use
PdbIdle ==
    /\ pdb_lines = <<>>
    /\ target_chain = "A"
    /\ sequence = <<>>
    /\ residues = <<>>
    /\ last_resi = None
    /\ pdb_i = 1
    /\ residue_map = <<>>
    /\ pdb_pc = "idle"

\* for i in lines: one iteration
ScanAtomLine ==
    /\ pdb_pc = "scan"
    /\ pdb_i <= Len(AtomLines(pdb_lines))
    /\ LET st == ScanLine(LoopState(sequence, residues, last_resi, "none"),
                          AtomLines(pdb_lines)[pdb_i], target_chain)
       IN  /\ sequence' = st.sequence
           /\ residues' = st.residues
           /\ last_resi' = st.last_resi
           /\ pdb_pc' = IF st.error = "none" THEN "scan" ELSE st.error
    /\ pdb_i' = pdb_i + 1
    /\ UNCHANGED <<pdb_lines, target_chain, residue_map, not_pdbvars>>

\* after the loop: build the dict and return
ReturnSequence ==
    /\ pdb_pc = "scan"
    /\ pdb_i > Len(AtomLines(pdb_lines))
    /\ residue_map' = DictOfResidues(residues)
    /\ pdb_pc' = "done"
    /\ UNCHANGED <<pdb_lines, target_chain, sequence, residues, last_resi, pdb_i,
                   not_pdbvars>>

PdbNext == ScanAtomLine \/ ReturnSequence


-----------------------------------------------------------------------------
(* Score-table parser: extract_scores_from_scorefile *)

\* hit = 'SCORE: '
HIT == <<"S", "C", "O", "R", "E", ":", " ">>

\* [j.strip() for j in i.replace( hit , '' ).split( ' ' ) if j.strip()]
Fields(i) ==
    SelectSeq(MapSeq(SplitOnBlank(RemoveAll(i, HIT), <<>>), Strip),
              LAMBDA j : j # <<>>)

\* dict( [(i , []) for i in score_terms] ): one key per distinct term name
EmptyScores(terms) == [t \in SeqRange(terms) |-> <<>>]

\* a value of the table: a float or the field's text
FloatValue(r) == [kind |-> "float", n |-> r.n, d |-> r.d, text |-> <<>>]

TextValue(t) == [kind |-> "str", n |-> 0, d |-> 1, text |-> t]

\* if not len( line ) == len( scores.keys() ): raise IOError
ColumnCountOk(line, sc, terms) == Len(line) = Cardinality(DOMAIN sc)

\* for j in xrange( len( line ) ): convert and append, from column j on
RECURSIVE AppendFields(_, _, _, _, _)
AppendFields(sc, terms, floats, line, j) ==
    IF j > Len(line) THEN [scores |-> sc, error |-> "none"]
    ELSE LET term == terms[j]
             converted == IF term \in floats THEN ParseFloat(line[j]) ELSE NoResult
             value == IF term \in floats THEN FloatValue(converted)
                      ELSE TextValue(line[j])
         IN  IF term \in floats /\ converted.error # "none"
             THEN [scores |-> sc, error |-> converted.error]
             ELSE AppendFields([sc EXCEPT ![term] = Append(@, value)],
                               terms, floats, line, j + 1)

\* the body of the loop over lines[header + 1:] for line i
ReadLine(sc, terms, floats, i) ==
    IF ~StartsWith(i, HIT) THEN [scores |-> sc, error |-> "none"]
    ELSE LET line == Fields(i)
         IN  IF ~ColumnCountOk(line, sc, terms)
             THEN [scores |-> sc, error |-> "IOError"]
             ELSE AppendFields(sc, terms, floats, line, 1)

\* Inputs: scorefile lines
TermNames == {<<"a">>, <<"b">>}

FieldTexts == {<<"-", "1", ".", "5">>, <<"x">>}

WordLists(words, maxlen) == UNION {[1..k -> words] : k \in 0..maxlen}

HitLine(words) == HIT \o JoinWithBlank(words) \o <<"\n">>

OtherLine == <<"#", "\n">>

HeaderLines == {HitLine(w) : w \in WordLists(TermNames, MaxTerms) \ {<<>>}}

RowLines == {HitLine(w) : w \in WordLists(FieldTexts, MaxFields)} \cup {OtherLine}

SfInit ==
    /\ sf_header \in {0, 1}
    /\ \E h \in HeaderLines, rows \in UNION {[1..k -> RowLines] : k \in 0..MaxRows} :
          sf_lines = [k \in 1..sf_header |-> OtherLine] \o <<h>> \o rows
    /\ as_float \in {{}, {<<"a">>}, {<<"a">>, <<"b">>}}
    /\ score_terms = <<>>
    /\ scores = <<>>
    /\ sf_i = 0
    /\ sf_pc = "start"

\* the score-table parser is not in use
SfIdle ==
    /\ sf_header = 0
    /\ sf_lines = <<>>
    /\ as_float = {}
    /\ score_terms = <<>>
    /\ scores = <<>>
    /\ sf_i = 0
    /\ sf_pc = "idle"

\* score_terms and scores from lines[header] (lines are 1-based here)
ReadHeader ==
    /\ sf_pc = "start"
    /\ score_terms' = Fields(sf_lines[sf_header + 1])
    /\ scores' = EmptyScores(Fields(sf_lines[sf_header + 1]))
    /\ sf_i' = sf_header + 2
    /\ sf_pc' = "rows"
    /\ UNCHANGED <<sf_lines, sf_header, as_float, not_sfvars>>

\* for i in lines[header + 1:]: one iteration
ReadScoreLine ==
    /\ sf_pc = "rows"
    /\ sf_i <= Len(sf_lines)
    /\ LET r == ReadLine(scores, score_terms, as_float, sf_lines[sf_i])
       IN  /\ scores' = r.scores
           /\ sf_pc' = IF r.error = "none" THEN "rows" ELSE r.error
    /\ sf_i' = sf_i + 1
    /\ UNCHANGED <<sf_lines, sf_header, as_float, score_terms, not_sfvars>>

\* return scores
ReturnScores ==
    /\ sf_pc = "rows"
    /\ sf_i > Len(sf_lines)
    /\ sf_pc' = "done"
    /\ UNCHANGED <<sf_lines, sf_header, as_float, score_terms, scores, sf_i,
                   not_sfvars>>

SfNext == ReadHeader \/ ReadScoreLine \/ ReturnScores

-----------------------------------------------------------------------------
(* PSSM parser: extract_pssm_from_psiblast_pssm *)

\* vipur_settings.PROTEIN_LETTERS, cut down to a two-letter alphabet
PROTEIN_LETTERS == <<"A", "C">>

\* columns = len( PROTEIN_LETTERS )
columns == Len(PROTEIN_LETTERS)

\* i.rstrip( '\n' )
RECURSIVE RStripNewline(_)
RStripNewline(s) ==
    IF s # <<>> /\ s[Len(s)] = "\n" THEN RStripNewline(SubSeq(s, 1, Len(s) - 1))
    ELSE s

\* the blanks a string starts with
RECURSIVE LeadingBlanks(_)
LeadingBlanks(s) ==
    IF s # <<>> /\ Head(s) = " " THEN <<" ">> \o LeadingBlanks(Tail(s)) ELSE <<>>

\* re.compile( '( +-?|-)' ).split( line ): text, separator, text, ..., text
RECURSIVE ReSplit(_, _, _)
ReSplit(s, text, out) ==
    IF s = <<>> THEN Append(out, text)
    ELSE IF Head(s) = " "
    THEN LET blanks == LeadingBlanks(s)
             rest == SubSeq(s, Len(blanks) + 1, Len(s))
             minus == rest # <<>> /\ Head(rest) = "-"
             sep == IF minus THEN Append(blanks, "-") ELSE blanks
         IN  ReSplit(SubSeq(s, Len(sep) + 1, Len(s)), <<>>, out \o <<text, sep>>)
    ELSE IF Head(s) = "-"
    THEN ReSplit(Tail(s), <<>>, out \o <<text, <<"-">>>>)
    ELSE ReSplit(Tail(s), Append(text, Head(s)), out)

\* The tokenizer of one line: drop an empty first piece, then
\* [sep[-1] + dat for sep , dat in zip( ff[::2] , ff[1::2] )].
\* error is "IndexError" when a piece in separator position is empty.
SplitLine(line) ==
    LET pieces == ReSplit(line, <<>>, <<>>)
        ff == IF pieces[1] = <<>> THEN Tail(pieces) ELSE pieces
        pairs == Len(ff) \div 2
    IN  IF \E k \in 1..pairs : ff[2 * k - 1] = <<>>
        THEN [fields |-> <<>>, error |-> "IndexError"]
        ELSE [fields |-> [k \in 1..pairs |->
                            <<ff[2 * k - 1][Len(ff[2 * k - 1])]>> \o ff[2 * k]],
              error |-> "none"]

\* the header check that accepts the first of several candidate lines
HeaderLinePresent(aa_line) == Len(aa_line) >= 1

\* assert len( aa_line ) == 1
HeaderLineUnique(aa_line) == Len(aa_line) = 1

\* aa_line = [ff for ff in split_lines if len( ff ) == most_columns + aa_line_shift]
HeaderCandidates(lines, most) ==
    SelectSeq(lines, LAMBDA ff : Len(ff) = most + aa_line_shift)

\* the three assertions on x2aa and num_aa (x is 0-based)
HeaderSane(map, n) ==
    /\ n * 2 = Len(map)
    /\ n = columns
    /\ \A x \in 0..(n - 1) : map[x + 1] = map[x + n + 1]

\* dict( pairs ): the last value given for a key stays
DictOf(keys, values) ==
    [k \in SeqRange(keys) |-> values[SetMax({x \in 1..Len(keys) : keys[x] = k})]]

\* The Position Entry of a full-width tokenized line ff (fields are 1-based)
PositionEntry(ff, map, n) ==
    LET pos == ParseInt(ff[1])
        ll == [x \in 1..n |-> ParseInt(ff[2 + x])]
        freq == [x \in 1..n |-> ParseFloat(ff[2 + n + x])]
        info == ParseFloat(ff[Len(ff) - 1])
        extra == ParseFloat(ff[Len(ff)])
        ok == /\ pos.error = "none"
              /\ \A x \in 1..n : ll[x].error = "none" /\ freq[x].error = "none"
              /\ info.error = "none" /\ extra.error = "none"
    IN  [error |-> IF ok THEN "none" ELSE "ValueError",
         position |-> pos.n,
         query_identity |-> ff[2],
         log_likelihood |-> DictOf(SubSeq(map, 1, n), [x \in 1..n |-> ll[x].n]),
         approximate_frequencies |->
             DictOf(SubSeq(map, 1, n),
                    [x \in 1..n |-> Rat(freq[x].n, freq[x].d * 100)]),
         information_content |-> Rat(info.n, info.d),
         extra |-> Rat(extra.n, extra.d)]

\* pssm_dict[pos] = entry
Store(dict, pos, entry) ==
    [p \in DOMAIN dict \cup {pos} |-> IF p = pos THEN entry ELSE dict[p]]

\* Inputs: raw lines of a PSSM file
\* the header: each label once per half: '           A  C   A   C\n'
PssmHeaderLine ==
    << " ", " ", " ", " ", " ", " ", " ", " ", " ", " ", " ", "A", " ", " ",
       "C", " ", " ", " ", "A", " ", " ", " ", "C", "\n" >>

\* a header naming one label in all four columns: '           A  A   A   A\n'
PssmHeaderRepeated ==
    << " ", " ", " ", " ", " ", " ", " ", " ", " ", " ", " ", "A", " ", " ",
       "A", " ", " ", " ", "A", " ", " ", " ", "A", "\n" >>

\* a header whose halves disagree: '           A  C   C   A\n'
PssmHeaderCrossed ==
    << " ", " ", " ", " ", " ", " ", " ", " ", " ", " ", " ", "A", " ", " ",
       "C", " ", " ", " ", "C", " ", " ", " ", "A", "\n" >>

\* position 1: '    1 M    2 -1   60  40  0.50 0.10\n'
PssmRow1 ==
    << " ", " ", " ", " ", "1", " ", "M", " ", " ", " ", " ", "2", " ", "-",
       "1", " ", " ", " ", "6", "0", " ", " ", "4", "0", " ", " ", "0", ".",
       "5", "0", " ", "0", ".", "1", "0", "\n" >>

\* position 1 a second time, with other values: '    1 K   -3  4   10  90  0.20 0.30\n'
PssmRow1Again ==
    << " ", " ", " ", " ", "1", " ", "K", " ", " ", " ", "-", "3", " ", " ",
       "4", " ", " ", " ", "1", "0", " ", " ", "9", "0", " ", " ", "0", ".",
       "2", "0", " ", "0", ".", "3", "0", "\n" >>

\* position 2, a minus sign with no blank before it: '    2 K    0-2   50  50  0.10 0.10\n'
PssmRow2 ==
    << " ", " ", " ", " ", "2", " ", "K", " ", " ", " ", " ", "0", "-", "2",
       " ", " ", " ", "5", "0", " ", " ", "5", "0", " ", " ", "0", ".", "1",
       "0", " ", "0", ".", "1", "0", "\n" >>

\* a full-width line whose first field is no integer: '    x M    2 -1   60  40  0.50 0.10\n'
PssmRowNoPosition ==
    << " ", " ", " ", " ", "x", " ", "M", " ", " ", " ", " ", "2", " ", "-",
       "1", " ", " ", " ", "6", "0", " ", " ", "4", "0", " ", " ", "0", ".",
       "5", "0", " ", "0", ".", "1", "0", "\n" >>

\* an empty line: '\n'
PssmBlankLine ==
    << "\n" >>

\* a line that starts with text: 'K Lambda\n'
PssmTextLine ==
    << "K", " ", "L", "a", "m", "b", "d", "a", "\n" >>

\* text around a doubled minus sign: 'K--L\n'
PssmDashLine ==
    << "K", "-", "-", "L", "\n" >>

PssmInputLines ==
    { PssmHeaderLine, PssmHeaderRepeated, PssmHeaderCrossed,
      PssmRow1, PssmRow1Again, PssmRow2,
      PssmRowNoPosition, PssmBlankLine, PssmTextLine,
      PssmDashLine }

PssmInit ==
    /\ pssm_lines \in UNION {[1..k -> PssmInputLines] : k \in 0..MaxPssmLines}
    /\ split_lines = <<>>
    /\ most_columns = 0
    /\ x2aa = <<>>
    /\ num_aa = 0
    /\ pssm_dict = <<>>
    /\ pssm_i = 1
    /\ pssm_pc = "start"

\* the PSSM parser is not in use
PssmIdle ==
    /\ pssm_lines = <<>>
    /\ split_lines = <<>>
    /\ most_columns = 0
    /\ x2aa = <<>>
    /\ num_aa = 0
    /\ pssm_dict = <<>>
    /\ pssm_i = 1
    /\ pssm_pc = "idle"

\* read the file and tokenize every line
TokenizeLines ==
    /\ pssm_pc = "start"
    /\ LET toks == [k \in 1..Len(pssm_lines) |->
                       SplitLine(RStripNewline(pssm_lines[k]))]
       IN  IF \E k \in 1..Len(toks) : toks[k].error # "none"
           THEN /\ pssm_pc' = "IndexError"
                /\ UNCHANGED split_lines
           ELSE /\ split_lines' = [k \in 1..Len(toks) |-> toks[k].fields]
                /\ pssm_pc' = "tokenized"
    /\ UNCHANGED <<pssm_lines, most_columns, x2aa, num_aa, pssm_dict, pssm_i,
                   not_pssmvars>>

\* most_columns, the header line and the checks on it
FindHeader ==
    /\ pssm_pc = "tokenized"
    /\ IF split_lines = <<>>
       THEN /\ pssm_pc' = "ValueError"            \* max( [] )
            /\ UNCHANGED <<most_columns, x2aa, num_aa>>
       ELSE LET most == SetMax({Len(ff) : ff \in SeqRange(split_lines)})
                aa_line == HeaderCandidates(split_lines, most)
            IN  /\ most_columns' = most
                /\ IF ~HeaderLineUnique(aa_line)
                   THEN /\ pssm_pc' = "AssertionError"
                        /\ UNCHANGED <<x2aa, num_aa>>
                   ELSE /\ x2aa' = MapSeq(aa_line[1], Strip)
                        /\ num_aa' = Len(aa_line[1]) \div 2
                        /\ pssm_pc' = IF HeaderSane(MapSeq(aa_line[1], Strip),
                                                    Len(aa_line[1]) \div 2)
                                      THEN "rows" ELSE "AssertionError"
    /\ UNCHANGED <<pssm_lines, split_lines, pssm_dict, pssm_i, not_pssmvars>>

\* for ff in split_lines: one iteration
ParsePssmLine ==
    /\ pssm_pc = "rows"
    /\ pssm_i <= Len(split_lines)
    /\ LET ff == split_lines[pssm_i]
           entry == PositionEntry(ff, x2aa, num_aa)
       IN  IF Len(ff) # most_columns
           THEN UNCHANGED <<pssm_dict, pssm_pc>>
           ELSE IF entry.error # "none"
           THEN /\ pssm_pc' = entry.error
                /\ UNCHANGED pssm_dict
           ELSE /\ pssm_dict' = Store(pssm_dict, entry.position, entry)
                /\ UNCHANGED pssm_pc
    /\ pssm_i' = pssm_i + 1
    /\ UNCHANGED <<pssm_lines, split_lines, most_columns, x2aa, num_aa,
                   not_pssmvars>>

\* return pssm_dict
ReturnPssm ==
    /\ pssm_pc = "rows"
    /\ pssm_i > Len(split_lines)
    /\ pssm_pc' = "done"
    /\ UNCHANGED <<pssm_lines, split_lines, most_columns, x2aa, num_aa, pssm_dict,
                   pssm_i, not_pssmvars>>

PssmNext == TokenizeLines \/ FindHeader \/ ParsePssmLine \/ ReturnPssm

-----------------------------------------------------------------------------
(* Quantile comparison: extract_quartile_score_terms_from_scorefiles,      *)
(* called with two parsed tables (not with scorefile names)                *)

\* 'quartile_'
quartile_prefix == <<"q", "u", "a", "r", "t", "i", "l", "e", "_">>

\* the feature name of the commented-out line: term +'_'+ quartile
feature_name_term_first(term, label) == term \o <<"_">> \o label

\* feature_name = 'quartile_' + term + quartile
feature_name(term, label) == quartile_prefix \o term \o label

\* Inputs: term names, one a prefix of the other
CmpTermNames == {<<"a">>, <<"a", "Q">>}

\* Inputs: the columns a table may hold, in row (decoy) order
CmpColumns == {<<2, 1>>, <<1, 3, 2>>, <<1>>}

\* Inputs: a table holds every term name or only the first
CmpTables == [CmpTermNames -> CmpColumns] \cup [{<<"a">>} -> CmpColumns]

\* Inputs: the named quantiles, { 'Q1' : .25 , '1' : .5 } and its sub-dicts
CmpQuartiles == [l \in {<<"Q", "1">>, <<"1">>} |->
                    IF l = <<"Q", "1">> THEN Rat(1, 4) ELSE Rat(1, 2)]

\* the orders in which a dict may list the keys of a set of labels
KeyOrders(labels) ==
    {o \in UNION {[1..k -> labels] : k \in 0..Cardinality(labels)} :
        /\ Len(o) = Cardinality(labels)
        /\ SeqRange(o) = labels}

CmpInit ==
    /\ variant_distribution \in CmpTables
    /\ native_distribution \in CmpTables
    /\ cmp_terms \in UNION {[1..k -> CmpTermNames] : k \in 0..MaxCmpTerms}
    /\ \E labels \in SUBSET DOMAIN CmpQuartiles :
          /\ quartiles = [l \in labels |-> CmpQuartiles[l]]
          /\ quartile_keys \in KeyOrders(labels)
    /\ quartile_comparisons = <<>>
    /\ cmp_term = 1
    /\ cmp_quartile = 1
    /\ cmp_pc = "loop"

\* the quantile comparison is not in use
CmpIdle ==
    /\ variant_distribution = <<>>
    /\ native_distribution = <<>>
    /\ cmp_terms = <<>>
    /\ quartiles = <<>>
    /\ quartile_keys = <<>>
    /\ quartile_comparisons = <<>>
    /\ cmp_term = 1
    /\ cmp_quartile = 1
    /\ cmp_pc = "idle"

\* one iteration of the inner loop: for term in terms: for quartile in
\* quartiles.keys().  The two quantile functions sort the lists they are given.
CompareTerm ==
    /\ cmp_pc = "loop"
    /\ cmp_term <= Len(cmp_terms)
    /\ quartile_keys # <<>>
    /\ LET term == cmp_terms[cmp_term]
           label == quartile_keys[cmp_quartile]
       IN  IF term \notin DOMAIN variant_distribution
              \/ term \notin DOMAIN native_distribution
           THEN /\ cmp_pc' = "KeyError"
                /\ UNCHANGED <<variant_distribution, native_distribution,
                               quartile_comparisons>>
           ELSE LET r == determine_quartile_from_quartile_value_of_another_distribution(
                             quartiles[label], variant_distribution[term],
                             native_distribution[term])
                IN  /\ variant_distribution' =
                          [variant_distribution EXCEPT ![term] = Sorted(@)]
                    /\ native_distribution' =
                          [native_distribution EXCEPT ![term] = Sorted(@)]
                    /\ IF r.error # "none"
                       THEN /\ cmp_pc' = r.error
                            /\ UNCHANGED quartile_comparisons
                       ELSE /\ quartile_comparisons' =
                                  Store(quartile_comparisons,
                                        feature_name(term, label), r)
                            /\ UNCHANGED cmp_pc
    /\ IF cmp_quartile < Len(quartile_keys)
       THEN /\ cmp_quartile' = cmp_quartile + 1
            /\ UNCHANGED cmp_term
       ELSE /\ cmp_quartile' = 1
            /\ cmp_term' = cmp_term + 1
    /\ UNCHANGED <<cmp_terms, quartiles, quartile_keys, not_cmpvars>>

\* return quartile_comparisons
ReturnComparisons ==
    /\ cmp_pc = "loop"
    /\ cmp_term > Len(cmp_terms) \/ quartile_keys = <<>>
    /\ cmp_pc' = "done"
    /\ UNCHANGED <<variant_distribution, native_distribution, cmp_terms, quartiles,
                   quartile_keys, quartile_comparisons, cmp_term, cmp_quartile,
                   not_cmpvars>>

CmpNext == CompareTerm \/ ReturnComparisons

-----------------------------------------------------------------------------
(* Completion check: check_psiblast_output *)

UpperCase == <<"A", "B", "C", "D", "E", "F", "G", "H", "I", "J", "K", "L", "M",
               "N", "O", "P", "Q", "R", "S", "T", "U", "V", "W", "X", "Y", "Z">>

LowerCase == <<"a", "b", "c", "d", "e", "f", "g", "h", "i", "j", "k", "l", "m",
               "n", "o", "p", "q", "r", "s", "t", "u", "v", "w", "x", "y", "z">>

LowerChar(c) ==
    IF c \in SeqRange(UpperCase)
    THEN LowerCase[CHOOSE k \in 1..Len(UpperCase) : UpperCase[k] = c]
    ELSE c

\* s.lower()
Lower(s) == [k \in 1..Len(s) |-> LowerChar(s[k])]

\* p in s
Contains(s, p) ==
    \E k \in 0..(Len(s) - Len(p)) : SubSeq(s, k + 1, k + Len(p)) = p

\* a path that names a regular file with the given content
File(content) == [given |-> TRUE, isfile |-> TRUE, content |-> content]

\* a path that names no file
NoFile == [given |-> TRUE, isfile |-> FALSE, content |-> <<>>]

\* psiblast_output = None, the default
NotGiven == [given |-> FALSE, isfile |-> FALSE, content |-> <<>>]

\* failed_output_str = 'No hits found'
NoHitsFound == <<"N", "o", " ", "h", "i", "t", "s", " ", "f", "o", "u", "n", "d">>

\* Inputs: file contents: '', ' \n', 'P 1\n', '* No hits found *\n',
\* '* no hits found *\n', 'Error\n'
FileContents ==
    { <<>>,
      <<" ", "\n">>,
      <<"P", " ", "1", "\n">>,
      <<"*", " ">> \o NoHitsFound \o <<" ", "*", "\n">>,
      <<"*", " ">> \o Lower(NoHitsFound) \o <<" ", "*", "\n">>,
      <<"E", "r", "r", "o", "r", "\n">> }

ChkInit ==
    /\ psiblast_pssm \in {File(c) : c \in FileContents} \cup {NoFile}
    /\ psiblast_output \in {File(c) : c \in FileContents} \cup {NoFile, NotGiven}
    /\ failed_output_str \in {NoHitsFound, <<"E", "r", "r", "o", "r">>}
    /\ not_empty = "None"
    /\ success = TRUE
    /\ chk_pc = "start"

\* the completion check is not in use
ChkIdle ==
    /\ psiblast_pssm = NoFile
    /\ psiblast_output = NotGiven
    /\ failed_output_str = NoHitsFound
    /\ not_empty = "None"
    /\ success = TRUE
    /\ chk_pc = "idle"

\* if os.path.isfile( psiblast_pssm ): not_empty = bool( f.read().strip() )
ReadPssm ==
    /\ chk_pc = "start"
    /\ not_empty' = IF ~psiblast_pssm.isfile THEN "None"
                    ELSE IF Strip(psiblast_pssm.content) # <<>> THEN "True"
                    ELSE "False"
    /\ chk_pc' = "pssm_read"
    /\ UNCHANGED <<psiblast_pssm, psiblast_output, failed_output_str, success,
                   not_chkvars>>

\* if not not_empty: look at psiblast_output.  os.path.isfile( None ) raises
\* TypeError.
ScanOutput ==
    /\ chk_pc = "pssm_read"
    /\ not_empty # "True"
    /\ IF ~psiblast_output.given
       THEN /\ chk_pc' = "TypeError"
            /\ UNCHANGED <<not_empty, success>>
       ELSE IF ~psiblast_output.isfile
       THEN /\ success' = FALSE
            /\ chk_pc' = "scanned"
            /\ UNCHANGED not_empty
       ELSE IF Contains(Lower(psiblast_output.content), Lower(failed_output_str))
       THEN /\ not_empty' = "False"
            /\ chk_pc' = "scanned"
            /\ UNCHANGED success
       ELSE /\ success' = FALSE
            /\ chk_pc' = "scanned"
            /\ UNCHANGED not_empty
    /\ UNCHANGED <<psiblast_pssm, psiblast_output, failed_output_str, not_chkvars>>

\* return success , not_empty
ReturnCheck ==
    /\ \/ chk_pc = "scanned"
       \/ chk_pc = "pssm_read" /\ not_empty = "True"
    /\ chk_pc' = "done"
    /\ UNCHANGED <<psiblast_pssm, psiblast_output, failed_output_str, not_empty,
                   success, not_chkvars>>

ChkNext == ReadPssm \/ ScanOutput \/ ReturnCheck

-----------------------------------------------------------------------------
(* Specifications: one per component; the other components stay idle *)

InitQuantile == QInit /\ PdbIdle /\ SfIdle /\ PssmIdle /\ CmpIdle /\ ChkIdle

SpecQuantile == InitQuantile /\ [][QNext]_vars

InitPdb == PdbInit /\ QIdle /\ SfIdle /\ PssmIdle /\ CmpIdle /\ ChkIdle

SpecPdb == InitPdb /\ [][PdbNext]_vars

InitScore == SfInit /\ QIdle /\ PdbIdle /\ PssmIdle /\ CmpIdle /\ ChkIdle

SpecScore == InitScore /\ [][SfNext]_vars

InitPssm == PssmInit /\ QIdle /\ PdbIdle /\ SfIdle /\ CmpIdle /\ ChkIdle

SpecPssm == InitPssm /\ [][PssmNext]_vars

InitCompare == CmpInit /\ QIdle /\ PdbIdle /\ SfIdle /\ PssmIdle /\ ChkIdle

SpecCompare == InitCompare /\ [][CmpNext]_vars

InitCheck == ChkInit /\ QIdle /\ PdbIdle /\ SfIdle /\ PssmIdle /\ CmpIdle

SpecCheck == InitCheck /\ [][ChkNext]_vars


-----------------------------------------------------------------------------
(* Claims about the quantile engine, checked under SpecQuantile *)

InUnitInterval(q) == 0 < q.n /\ q.n < q.d

DistinctValues(s) == Cardinality(SeqRange(s))

\* the interpolating branch of determine_quartile_value was taken
Interpolated(q, s) == (q.n * (Len(s) - 1)) % q.d > (q.d - 1) \div ToleranceDen

\* C1 (as stated): for every distribution with at least two distinct values,
\* repeats allowed, and every q strictly between 0 and 1, the quantile of the
\* value at quantile q is within the tolerance of q.
C1_RoundTripWithRepeats ==
    (q_pc = "inverted" /\ InUnitInterval(quartile)
        /\ DistinctValues(query_distribution) >= 2)
    => /\ quartile_back.error = "none"
       /\ RWithinTolerance(quartile_back, quartile)

\* C1 (amended): for every distribution of at least two pairwise distinct
\* values (neighbours at least 1 apart) and every q strictly between 0 and 1,
\* the quantile of the value at quantile q is within the tolerance of q.
C1_RoundTripDistinct ==
    (q_pc = "inverted" /\ InUnitInterval(quartile)
        /\ Len(query_distribution) >= 2
        /\ DistinctValues(query_distribution) = Len(query_distribution))
    => /\ quartile_back.error = "none"
       /\ RWithinTolerance(quartile_back, quartile)

\* a round trip through the interpolating branches on three distinct values
C1_Witness ==
    /\ q_pc = "inverted"
    /\ InUnitInterval(quartile)
    /\ Len(query_distribution) = 3
    /\ DistinctValues(query_distribution) = 3
    /\ Interpolated(quartile, query_distribution)
    /\ quartile_value.d > 1
    /\ quartile_back.error = "none"
    /\ REq(quartile_back, quartile)

\* C2: the comparison value is produced without an error for every pair of
\* non-empty distributions (a one-element or all-equal reference included),
\* lies in [0,1], and is exactly 1 when the query's value is at or above the
\* reference maximum and the reference has at least two distinct values.
C2_ComparisonInUnitRange ==
    q_pc = "compared"
    => /\ quartile2 = determine_quartile(quartile_value, reference_distribution)
       /\ quartile2.error = "none"
       /\ 0 <= quartile2.n /\ quartile2.n <= quartile2.d
       /\ (/\ RLe(Rat(SetMax(SeqRange(reference_distribution)), 1), quartile_value)
           /\ DistinctValues(reference_distribution) >= 2)
          => quartile2.n = quartile2.d

\* C10: determine_quartile_value returns min(D) for q <= 0 and max(D) for
\* q = 1 and for q > 1.
C10_ClampToMinMax ==
    q_pc = "valued"
    => /\ quartile.n <= 0
          => REq(quartile_value, Rat(SetMin(SeqRange(query_distribution)), 1))
       /\ quartile.n >= quartile.d
          => REq(quartile_value, Rat(SetMax(SeqRange(query_distribution)), 1))

\* q = 1 on a distribution whose minimum and maximum differ
C10_Witness ==
    /\ q_pc = "valued"
    /\ quartile.n = quartile.d
    /\ DistinctValues(query_distribution) >= 2
    /\ REq(quartile_value, Rat(SetMax(SeqRange(query_distribution)), 1))

-----------------------------------------------------------------------------
(* Claims about the sequence extractor, checked under SpecPdb *)

\* the ATOM records of the target chain among the lines scanned so far
ScannedTargetRecords ==
    SelectSeq(SubSeq(AtomLines(pdb_lines), 1, pdb_i - 1),
              LAMBDA i : i.chain = target_chain)

\* whether record k of T starts a maximal run of equal position labels
StartsRun(T, k) == k = 1 \/ Strip(T[k].resi) # Strip(T[k - 1].resi)

\* the first records of the maximal runs of T, in order
RECURSIVE RunHeads(_, _)
RunHeads(T, k) ==
    IF k > Len(T) THEN <<>>
    ELSE (IF StartsRun(T, k) THEN <<T[k]>> ELSE <<>>) \o RunHeads(T, k + 1)

\* C5: the returned numbering map is a bijection from its labels onto
\* 0 .. len(sequence)-1 and sends the label of the k-th character to k, also
\* when a label of the target chain reappears after another label.
C5_NumberingMapBijection ==
    pdb_pc = "done"
    => /\ {residue_map[l] : l \in DOMAIN residue_map} = 0..(Len(sequence) - 1)
       /\ Cardinality(DOMAIN residue_map) = Len(sequence)
       /\ \A k \in 1..Len(residues) : residue_map[residues[k]] = k - 1

\* C6: one sequence character per maximal run of equal position labels among
\* the ATOM records of the target chain, taken from the run's first record, in
\* document order; records of other chains add no character and no map entry
\* and neither start nor break a run.
C6_OneCharacterPerRun ==
    pdb_pc \in {"scan", "done"}
    => LET heads == RunHeads(ScannedTargetRecords, 1)
       IN  /\ sequence = MapSeq(heads, LAMBDA i : AMINO_ACID_CODES[i.resn])
           /\ residues = MapSeq(heads, LAMBDA i : Strip(i.resi))
           /\ pdb_pc = "done"
              => DOMAIN residue_map = {Strip(i.resi) : i \in SeqRange(heads)}

\* a run of the target chain with a record of another chain inside it, whose
\* two records name different residue types: one character, from the first
C6_Witness ==
    /\ pdb_pc = "done"
    /\ Len(pdb_lines) = 3
    /\ \A k \in 1..3 : pdb_lines[k].record = "ATOM"
    /\ pdb_lines[1].chain = target_chain
    /\ pdb_lines[2].chain # target_chain
    /\ pdb_lines[3].chain = target_chain
    /\ Strip(pdb_lines[1].resi) = Strip(pdb_lines[3].resi)
    /\ Strip(pdb_lines[2].resi) # Strip(pdb_lines[1].resi)
    /\ pdb_lines[1].resi # pdb_lines[3].resi
    /\ pdb_lines[1].resn = "GLY" /\ pdb_lines[3].resn = "ALA"
    /\ sequence = <<"G">>
    /\ DOMAIN residue_map = {<<"1", "0">>}

-----------------------------------------------------------------------------
(* Claims about the score-table parser, checked under SpecScore *)

\* the marker-prefixed lines after the header, in file order
HitRows ==
    SelectSeq(SubSeq(sf_lines, sf_header + 2, Len(sf_lines)),
              LAMBDA i : StartsWith(i, HIT))

\* the term names the header line names, duplicates included
HeaderTermNames == Fields(sf_lines[sf_header + 1])

\* some marker-prefixed line after the header has a field count other than
\* the number of term names of the header line
SomeRowMiscounted ==
    \E k \in 1..Len(HitRows) : Len(Fields(HitRows[k])) # Len(HeaderTermNames)

\* C3: the parser fails with the fatal column-count error exactly when some
\* marker-prefixed line after the header has a field count different from the
\* number of term names in the header line, also for a header that names a
\* term twice.  (Runs that end in a float() conversion error are left aside.)
C3_FailsIffRowMiscounted ==
    sf_pc \in {"done", "IOError"} => (sf_pc = "IOError" <=> SomeRowMiscounted)

\* what the table must hold for a field of a term's column
Converted(term, field) ==
    IF term \in as_float THEN FloatValue(ParseFloat(field)) ELSE TextValue(field)

\* C4: on success every header term maps to a sequence with one element per
\* marker-prefixed line after the header, the i-th being the field of the
\* i-th such line in that term's column, a float exactly for the terms of the
\* numeric set and text otherwise.
C4_TableHoldsEveryRow ==
    sf_pc = "done"
    => \A t \in SeqRange(HeaderTermNames) :
          /\ t \in DOMAIN scores
          /\ Len(scores[t]) = Len(HitRows)
          /\ \A i \in 1..Len(HitRows) :
                \E j \in 1..Len(HeaderTermNames) :
                   /\ HeaderTermNames[j] = t
                   /\ j <= Len(Fields(HitRows[i]))
                   /\ scores[t][i] = Converted(t, Fields(HitRows[i])[j])

-----------------------------------------------------------------------------
(* Claims about the PSSM parser, checked under SpecPssm *)

\* the tokenized lines, computed from the raw lines
TokenizedLines ==
    [k \in 1..Len(pssm_lines) |-> SplitLine(RStripNewline(pssm_lines[k])).fields]

\* the largest field count among the tokenized lines (0 for an empty file)
MaxFieldCount == SetMax({Len(TokenizedLines[k]) : k \in 1..Len(pssm_lines)} \cup {0})

\* the indices of the lines whose field count is the maximum
QualifyingLines == {k \in 1..Len(pssm_lines) : Len(TokenizedLines[k]) = MaxFieldCount}

\* the indices of the lines with exactly (maximum field count - 4) fields
HeaderLines4Fewer ==
    {k \in 1..Len(pssm_lines) : Len(TokenizedLines[k]) = MaxFieldCount - 4}

\* the labels of the header line, blanks stripped
HeaderLabels ==
    MapSeq(TokenizedLines[CHOOSE k \in HeaderLines4Fewer : TRUE], Strip)

\* the columns of the header that carry label aa
ColumnsOf(aa) == {x \in 1..Len(HeaderLabels) : HeaderLabels[x] = aa}

\* every label occupies exactly two columns, at the same offset of the two
\* halves, and there are as many distinct labels as the alphabet has letters
HeaderWellFormed ==
    /\ Cardinality(SeqRange(HeaderLabels)) = columns
    /\ \A aa \in SeqRange(HeaderLabels) :
          \E x \in 1..columns : ColumnsOf(aa) = {x, x + columns}

\* C7: on success the record holds exactly one Position Entry per tokenized
\* line of maximal field count, keyed by the integer in its first field, also
\* when two such lines carry the same position number.  (Stated for files
\* whose header is well formed.)
C7_OneEntryPerQualifyingLine ==
    (pssm_pc = "done" /\ HeaderWellFormed)
    => /\ Cardinality(DOMAIN pssm_dict) = Cardinality(QualifyingLines)
       /\ \A k \in QualifyingLines :
             ParseInt(TokenizedLines[k][1]).n \in DOMAIN pssm_dict

\* C8: a record is returned only if every label of the header occupies
\* exactly two columns, at the same offset of the two halves, and the number
\* of distinct labels equals the alphabet size.
C8_HeaderLabelsTwiceEach == pssm_pc = "done" => HeaderWellFormed

\* C9: the parser fails fatally, with no record, whenever the number of
\* tokenized lines with exactly (maximum field count - 4) fields is not one.
C9_FailsUnlessOneHeader ==
    (Cardinality(HeaderLines4Fewer) # 1 /\ pssm_pc \notin {"start", "tokenized"})
    => /\ pssm_pc \in {"AssertionError", "ValueError", "IndexError"}
       /\ pssm_dict = <<>>

\* two lines tie for the header field count and the parser has stopped
C9_Witness ==
    /\ Cardinality(HeaderLines4Fewer) = 2
    /\ MaxFieldCount = 2 * columns + 4
    /\ pssm_pc = "AssertionError"
    /\ pssm_dict = <<>>


\* the pieces of a line: text, separator, text, ..., text
Pieces(line) == ReSplit(line, <<>>, <<>>)

\* the field of the j-th text piece: the last character of the separator
\* before it, then the text; empty when the text piece is empty
FieldOfText(pieces, j) ==
    IF pieces[2 * j - 1] = <<>> THEN <<>>
    ELSE IF j = 1 THEN pieces[1]
    ELSE <<pieces[2 * j - 2][Len(pieces[2 * j - 2])]>> \o pieces[2 * j - 1]

\* one field per data token (non-empty text piece) of the line, in order
ExpectedFields(line) ==
    SelectSeq([j \in 1..((Len(Pieces(line)) + 1) \div 2) |->
                   FieldOfText(Pieces(line), j)],
              LAMBDA f : f # <<>>)

\* C14: for every input line the tokenizer yields, in order, one field per
\* data token: the last character of the separator before the token, then the
\* token's text; no token is dropped or paired with the wrong separator, also
\* when the line begins with a data token.
C14_OneFieldPerDataToken ==
    pssm_pc = "tokenized"
    => \A k \in 1..Len(pssm_lines) :
          split_lines[k] = ExpectedFields(RStripNewline(pssm_lines[k]))
-----------------------------------------------------------------------------
(* Claims about the quantile comparison, checked under SpecCompare *)

\* C11: no step of the comparison (each of which calls
\* determine_quartile_value and determine_quartile on a column of each table)
\* changes a table passed in: every term keeps its values in the same row
\* order.
C11_TablesUnchanged ==
    [][/\ variant_distribution' = variant_distribution
       /\ native_distribution' = native_distribution]_vars

\* the pairs (term, quantile label) of the configured terms and quantiles
ConfiguredPairs == SeqRange(cmp_terms) \X DOMAIN quartiles

\* the number of entries of the returned mapping
EntryCount == Cardinality(DOMAIN quartile_comparisons)

\* the positions (term index, label index) of the iterations that form key
IterationsOf(key) ==
    {p \in (1..Len(cmp_terms)) \X (1..Len(quartile_keys)) :
        <<"q", "u", "a", "r", "t", "i", "l", "e", "_">>
            \o cmp_terms[p[1]] \o quartile_keys[p[2]] = key}

\* the last of them in iteration order
LastIterationOf(key) ==
    CHOOSE p \in IterationsOf(key) :
        \A o \in IterationsOf(key) :
            o[1] < p[1] \/ (o[1] = p[1] /\ o[2] <= p[2])

\* the comparison value of iteration p
ComparisonAt(p) ==
    determine_quartile(
        determine_quartile_value(quartiles[quartile_keys[p[2]]],
                                 variant_distribution[cmp_terms[p[1]]]),
        native_distribution[cmp_terms[p[1]]])

\* C12 (as stated): the returned mapping has exactly one entry per pair
\* (term, quantile label), under the key "quantile_" + term + label.
C12_KeysQuantilePrefix ==
    cmp_pc = "done"
    => /\ EntryCount = Cardinality(ConfiguredPairs)
       /\ \A p \in ConfiguredPairs :
             <<"q", "u", "a", "n", "t", "i", "l", "e", "_">> \o p[1] \o p[2]
                \in DOMAIN quartile_comparisons

\* C12 (amended): the keys of the returned mapping are exactly the strings
\* "quartile_" + term + label of the configured pairs; each key holds the
\* comparison value of the last iteration that forms it; and there is exactly
\* one entry per pair whenever distinct pairs form distinct strings.
C12_KeysQuartilePrefix ==
    cmp_pc = "done"
    => /\ DOMAIN quartile_comparisons =
             {<<"q", "u", "a", "r", "t", "i", "l", "e", "_">> \o p[1] \o p[2] :
                 p \in ConfiguredPairs}
       /\ \A key \in DOMAIN quartile_comparisons :
             quartile_comparisons[key] = ComparisonAt(LastIterationOf(key))
       /\ (\A p, o \in ConfiguredPairs :
              p # o => p[1] \o p[2] # o[1] \o o[2])
          => EntryCount = Cardinality(ConfiguredPairs)

\* two terms and two labels whose four pairs form three strings
C12_Witness ==
    /\ cmp_pc = "done"
    /\ Cardinality(ConfiguredPairs) = 4
    /\ EntryCount = 3
    /\ <<"q", "u", "a", "r", "t", "i", "l", "e", "_", "a", "Q", "1">>
          \in DOMAIN quartile_comparisons

-----------------------------------------------------------------------------
(* Claims about the completion check, checked under SpecCheck *)

\* the PSSM file exists and has non-blank content
PssmHasContent ==
    psiblast_pssm.isfile /\ Strip(psiblast_pssm.content) # <<>>

\* the companion log exists and contains the failure phrase
LogHasPhrase ==
    /\ psiblast_output.given
    /\ psiblast_output.isfile
    /\ Contains(psiblast_output.content, failed_output_str)

\* C13: the check never raises; with a non-blank PSSM file it returns success
\* with not_empty true; with a missing or blank one it returns success exactly
\* when the log exists and contains the failure phrase, then with not_empty
\* false, and a failure result otherwise (log missing, not given, or without
\* the phrase).
C13_ReturnsResultNeverRaises ==
    /\ chk_pc \in {"start", "pssm_read", "scanned", "done"}
    /\ chk_pc = "done"
       => /\ PssmHasContent => (success /\ not_empty = "True")
          /\ ~PssmHasContent
             => /\ success <=> LogHasPhrase
                /\ success => not_empty = "False"

=============================================================================
